---------------------------- MODULE Spec2Model ----------------------------
(***************************************************************************)
(* A model of the e-ink image converters scripts/convert_to_bmp.py (8-bit  *)
(* indexed BMP, BWRY and BWR palettes) and scripts/convert_to_4ei.py (raw  *)
(* "4EI1" files, 2 bits per pixel).                                        *)
(*                                                                         *)
(* Grids are row-major sequences: cell (x, y) of a grid of width w is at   *)
(* index y * w + x + 1.  An RGB triple is a 3-tuple.                       *)
(*                                                                         *)
(* numpy float32 values are modelled exactly as pairs <<m, e>> standing    *)
(* for m * 2^e, in canonical form (m odd, or <<0, 0>>), with |m| < 2^24;   *)
(* every arithmetic operation rounds to nearest, ties to even, as IEEE     *)
(* single precision does.                                                  *)
(***************************************************************************)
EXTENDS Integers, Sequences, FiniteSets, TLC

VARIABLES
    program,      \* "bmp" (convert_to_bmp.py) or "4ei" (convert_to_4ei.py)
    numpy,        \* scalar promotion rules of the installed numpy
    format_type,  \* the format selector ('bwry', 'bwr', or anything else)
    use_dither,   \* the --dither switch
    width,        \* of the grid being processed
    height,
    img,          \* the loaded RGB grid, channels in 0..255
    dtype,        \* element type of the triple handed to nearest_color
    pixels,       \* the float32 working copy of floyd_steinberg_dither
    output,       \* the Index Grid (output / color_array in the source)
    pos,          \* number of pixels the dither loop has processed
    nearest,      \* value returned by the last nearest_color call
    data,         \* bytes returned by pack_pixels
    file,         \* what has been written to output_path
    pc            \* control position

vars == <<program, numpy, format_type, use_dither, width, height, img, dtype,
          pixels, output, pos, nearest, data, file, pc>>

---------------------------------------------------------------------------
(* Bounds of the model *)

\* Largest number of cells of a grid handed to the quantizers.
MaxCells == 4

\* Largest number of cells of an Index Grid handed to pack_pixels alone.
MaxPackCells == 8

\* The display of the conversions is 4 * WidthQuads pixels wide and
\* 4 * HeightQuads pixels high (the panel of the source is 200 x 200, that
\* is 50 quads each way).
WidthQuads == 1

HeightQuads == 1

---------------------------------------------------------------------------
(* Display dimensions *)

\* WIDTH = 200 and HEIGHT = 200 in both scripts.
PanelWidth == 200

PanelHeight == 200

\* The dimensions the conversions of the model resize to: multiples of 4,
\* as 200 is, scaled down.
WIDTH == 4 * WidthQuads

HEIGHT == 4 * HeightQuads

---------------------------------------------------------------------------
(* Palettes: dictionaries in declaration (= iteration) order *)

PALETTE_BWRY ==
    << [name |-> "black",  rgb |-> <<0, 0, 0>>],
       [name |-> "white",  rgb |-> <<255, 255, 255>>],
       [name |-> "yellow", rgb |-> <<255, 255, 0>>],
       [name |-> "red",    rgb |-> <<255, 0, 0>>] >>

PALETTE_INDICES_BWRY == [black |-> 0, white |-> 1, yellow |-> 2, red |-> 3]

PALETTE_BWR ==
    << [name |-> "black",  rgb |-> <<0, 0, 0>>],
       [name |-> "white",  rgb |-> <<255, 255, 255>>],
       [name |-> "red",    rgb |-> <<255, 0, 0>>] >>

PALETTE_INDICES_BWR_RedAsBwry == [black |-> 0, white |-> 1, red |-> 3]

PALETTE_INDICES_BWR == [black |-> 0, white |-> 1, red |-> 2]

PALETTE ==
    << [name |-> "black",  rgb |-> <<0, 0, 0>>],
       [name |-> "white",  rgb |-> <<255, 255, 255>>],
       [name |-> "yellow", rgb |-> <<255, 255, 0>>],
       [name |-> "red",    rgb |-> <<255, 0, 0>>] >>

COLOR_CODES == [black |-> 0, white |-> 1, yellow |-> 2, red |-> 3]

\* The palette convert_image selects: 'bwry' gets BWRY, anything else BWR;
\* convert_to_4ei.py has the one global PALETTE.
SelectPalette(prog, fmt) ==
    IF prog = "4ei" THEN PALETTE
    ELSE IF fmt = "bwry" THEN PALETTE_BWRY ELSE PALETTE_BWR

SelectIndices(prog, fmt) ==
    IF prog = "4ei" THEN COLOR_CODES
    ELSE IF fmt = "bwry" THEN PALETTE_INDICES_BWRY ELSE PALETTE_INDICES_BWR

\* The rgb value of a palette's entry of the given name: palette[color_name].
PaletteRGB(palette, name) ==
    LET k == CHOOSE k \in 1..Len(palette) : palette[k].name = name
    IN  palette[k].rgb

---------------------------------------------------------------------------
(* float32 arithmetic *)

Abs(n) == IF n < 0 THEN -n ELSE n

Sgn(n) == IF n < 0 THEN -1 ELSE IF n = 0 THEN 0 ELSE 1

Pow2(k) == 2 ^ k

\* Number of bits of a, 0 <= a < 2^30.
RECURSIVE BitLen(_)
BitLen(a) == IF a = 0 THEN 0 ELSE 1 + BitLen(a \div 2)

\* Number of trailing zero bits of a, a > 0.
RECURSIVE TrailingZeros(_)
TrailingZeros(a) == IF a % 2 = 1 THEN 0 ELSE 1 + TrailingZeros(a \div 2)

\* The canonical pair of m * 2^e.
Canon(m, e) ==
    IF m = 0 THEN <<0, 0>>
    ELSE LET t == TrailingZeros(Abs(m))
         IN  <<Sgn(m) * (Abs(m) \div Pow2(t)), e + t>>

\* n * 2^e rounded to 24 significant bits, ties to even (|n| < 2^30).
F32Round(n, e) ==
    LET a == Abs(n)
    IN  IF a < Pow2(24) THEN Canon(n, e)
        ELSE LET s  == BitLen(a) - 24
                 q  == a \div Pow2(s)
                 r  == a % Pow2(s)
                 h  == Pow2(s - 1)
                 up == r > h \/ (r = h /\ q % 2 = 1)
             IN  Canon(Sgn(n) * (IF up THEN q + 1 ELSE q), e + s)

\* np.float32(n) for an integer n of at most 24 bits.
F32FromInt(n) == Canon(n, 0)

\* float32 a + b.  When the exact sum does not fit the integers of the
\* model checker, the smaller operand is cut to three guard bits below the
\* rounding position, with a sticky bit (which rounds the same way).
F32Add(a, b) ==
    IF a[1] = 0 THEN b
    ELSE IF b[1] = 0 THEN a
    ELSE LET hi == IF a[2] >= b[2] THEN a ELSE b
             lo == IF a[2] >= b[2] THEN b ELSE a
             d  == hi[2] - lo[2]
         IN  IF d <= 29 /\ Abs(hi[1]) < Pow2(29 - d)
             THEN F32Round(hi[1] * Pow2(d) + lo[1], lo[2])
             ELSE LET q      == BitLen(Abs(hi[1])) + d - 28
                      hiq    == hi[1] * Pow2(d - q)
                      loq    == IF q >= 25
                                THEN (IF lo[1] < 0 THEN -1 ELSE 0)
                                ELSE lo[1] \div Pow2(q)
                      sticky == IF q >= 25 THEN 1
                                ELSE IF lo[1] % Pow2(q) # 0 THEN 1 ELSE 0
                  IN  F32Round(2 * (hiq + loq) + sticky, lo[2] + q - 1)

F32Neg(a) == <<-a[1], a[2]>>

F32Sub(a, b) == F32Add(a, F32Neg(b))

\* float32 a * k for a small integer k.
F32MulInt(a, k) == F32Round(a[1] * k, a[2])

\* float32 a / 16 (exact: a power of two).
F32Div16(a) == IF a[1] = 0 THEN a ELSE <<a[1], a[2] - 4>>

\* ndarray.astype(int) of a float32: truncation toward zero.
AstypeIntRounded(a) ==
    IF a[2] >= 0 THEN a[1] * Pow2(a[2])
    ELSE IF -a[2] > 30 THEN 0
    ELSE LET p == Pow2(-a[2])
             q == Abs(a[1]) \div p
             r == Abs(a[1]) % p
         IN  Sgn(a[1]) * (IF 2 * r >= p THEN q + 1 ELSE q)

AstypeInt(a) ==
    IF a[2] >= 0 THEN a[1] * Pow2(a[2])
    ELSE IF -a[2] > 30 THEN 0
    ELSE Sgn(a[1]) * (Abs(a[1]) \div Pow2(-a[2]))

Triple(f(_), t) == <<f(t[1]), f(t[2]), f(t[3])>>

Triple2(f(_, _), s, t) == <<f(s[1], t[1]), f(s[2], t[2]), f(s[3], t[3])>>

---------------------------------------------------------------------------
(* Colour classifier *)

\* How numpy evaluates `a - b`, `** 2` and the sum when a is a numpy scalar
\* of the given dtype and b a Python int.  Under the legacy (value based,
\* numpy 1.x) rules a uint8 scalar and a Python int give an int64; under
\* NEP 50 (numpy 2.x) the Python int is weak, the result stays uint8 and
\* wraps modulo 256.  np.int64 scalars (astype(int)) never wrap here.
ScalarWraps(dt, np) == dt = "uint8" /\ np = "nep50"

color_distance(c1, c2, wraps) ==
    LET sq(a, b) == IF wraps
                    THEN (((a - b) % 256) * ((a - b) % 256)) % 256
                    ELSE (a - b) * (a - b)
        s == sq(c1[1], c2[1]) + sq(c1[2], c2[2]) + sq(c1[3], c2[3])
    IN  IF wraps THEN s % 256 ELSE s

\* The loop of nearest_color over palette entries k..Len(palette), entered
\* with the best name and distance so far (min_dist = -1 stands for inf).
RECURSIVE nearest_loop(_, _, _, _, _, _)
nearest_loop(rgb, palette, wraps, k, best, min_dist) ==
    IF k > Len(palette) THEN best
    ELSE LET dist == color_distance(rgb, palette[k].rgb, wraps)
         IN  IF min_dist = -1 \/ dist < min_dist
             THEN nearest_loop(rgb, palette, wraps, k + 1, palette[k].name, dist)
             ELSE nearest_loop(rgb, palette, wraps, k + 1, best, min_dist)

nearest_color(rgb, palette, wraps) ==
    nearest_loop(rgb, palette, wraps, 1, "white", -1)

---------------------------------------------------------------------------
(* Quantizers *)

Cells(w, h) == 1..(w * h)

XOf(i, w) == (i - 1) % w

YOf(i, w) == (i - 1) \div w

Idx(x, y, w) == y * w + x + 1

Zeros(n) == [i \in 1..n |-> 0]

\* np.array(img, dtype=np.float32)
ToFloat32(im) == [i \in 1..Len(im) |-> Triple(F32FromInt, im[i])]

\* tuple(old_pixel.astype(int))
PixelAsInt(p) == Triple(AstypeInt, p)

\* error = old_pixel - new_pixel
QuantErrorNoSubtract(old_pixel, new_rgb) == old_pixel

QuantError(old_pixel, new_rgb) ==
    Triple2(F32Sub, old_pixel, Triple(F32FromInt, new_rgb))

\* pixels[...] += error * k / 16
Diffuse(p, error, k) ==
    LET share(e) == F32Div16(F32MulInt(e, k))
    IN  Triple2(F32Add, p, Triple(share, error))

\* The neighbours pixel (x, y) diffuses to, as <<index, weight>> pairs, in
\* the order the loop body updates them.
NeighboursWrapLeft(x, y, w, h) ==
    (IF x + 1 < w THEN << <<Idx(x + 1, y, w), 7>> >> ELSE << >>)
    \o (IF y + 1 < h
        THEN << <<Idx((x - 1) % w, y + 1, w), 3>> >>
             \o << <<Idx(x, y + 1, w), 5>> >>
             \o (IF x + 1 < w THEN << <<Idx(x + 1, y + 1, w), 1>> >> ELSE << >>)
        ELSE << >>)

Neighbours(x, y, w, h) ==
    (IF x + 1 < w THEN << <<Idx(x + 1, y, w), 7>> >> ELSE << >>)
    \o (IF y + 1 < h
        THEN (IF x > 0 THEN << <<Idx(x - 1, y + 1, w), 3>> >> ELSE << >>)
             \o << <<Idx(x, y + 1, w), 5>> >>
             \o (IF x + 1 < w THEN << <<Idx(x + 1, y + 1, w), 1>> >> ELSE << >>)
        ELSE << >>)

RECURSIVE DiffuseAll(_, _, _, _)
DiffuseAll(px, error, nbs, k) ==
    IF k > Len(nbs) THEN px
    ELSE DiffuseAll([px EXCEPT ![nbs[k][1]] = Diffuse(@, error, nbs[k][2])],
                    error, nbs, k + 1)

\* One iteration of the loop body of floyd_steinberg_dither, for the pixel
\* of index i: the new <<pixels, output>>.
DitherPixel(px, out, w, h, i, palette, indices) ==
    LET old_pixel  == px[i]
        color_name == nearest_color(PixelAsInt(old_pixel), palette, FALSE)
        error      == QuantError(old_pixel, PaletteRGB(palette, color_name))
        nbs        == Neighbours(XOf(i, w), YOf(i, w), w, h)
    IN  << DiffuseAll(px, error, nbs, 1),
           [out EXCEPT ![i] = indices[color_name]] >>

RECURSIVE DitherFrom(_, _, _, _, _, _, _)
DitherFrom(px, out, w, h, i, palette, indices) ==
    IF i > Len(px) THEN out
    ELSE LET st == DitherPixel(px, out, w, h, i, palette, indices)
         IN  DitherFrom(st[1], st[2], w, h, i + 1, palette, indices)

floyd_steinberg_dither(im, w, h, palette, indices) ==
    DitherFrom(ToFloat32(im), Zeros(w * h), w, h, 1, palette, indices)

\* np.array(img) is a uint8 array: nearest_color gets np.uint8 scalars.
simple_quantize(im, w, h, palette, indices, np) ==
    [i \in 1..(w * h) |->
        indices[nearest_color(im[i], palette, ScalarWraps("uint8", np))]]

---------------------------------------------------------------------------
(* Inputs of the model *)

NumpyRules == {"legacy", "nep50"}

\* Sample colours: the four palette colours and a grey whose diffused error
\* (89 * 7 / 16 = 38.9375) brings a second grey pixel to 127.9375, between
\* the integer 127 and the black/white boundary 127.5.
Colours == { <<0, 0, 0>>, <<255, 255, 255>>, <<255, 255, 0>>, <<255, 0, 0>>,
             <<89, 89, 89>> }

Shapes == { s \in (1..MaxCells) \X (1..MaxCells) : s[1] * s[2] <= MaxCells }

Selections == { <<"bmp", "bwry">>, <<"bmp", "bwr">>, <<"4ei", "bwry">> }

\* Nothing written to output_path.
NoFile == [written |-> FALSE, bytes |-> << >>, palette |-> << >>,
           pixels |-> << >>]

---------------------------------------------------------------------------
(* The quantizers on their own: the dither loop one pixel at a time *)

InitQuantize ==
    /\ \E sel \in Selections : program = sel[1] /\ format_type = sel[2]
    /\ use_dither \in BOOLEAN
    /\ numpy \in (IF use_dither THEN {"legacy"} ELSE NumpyRules)
    /\ \E s \in Shapes : width = s[1] /\ height = s[2]
    /\ img \in [1..(width * height) -> Colours]
    /\ dtype = IF use_dither THEN "int64" ELSE "uint8"
    /\ pixels = IF use_dither THEN ToFloat32(img) ELSE << >>
    /\ output = Zeros(width * height)
    /\ pos = 0
    /\ nearest = ""
    /\ data = << >>
    /\ file = NoFile
    /\ pc = IF use_dither THEN "dither" ELSE "quantize"

DitherIteration ==
    /\ pc = "dither"
    /\ pos < width * height
    /\ LET st == DitherPixel(pixels, output, width, height, pos + 1,
                             SelectPalette(program, format_type),
                             SelectIndices(program, format_type))
       IN  /\ pixels' = st[1]
           /\ output' = st[2]
    /\ pos' = pos + 1
    /\ UNCHANGED <<program, numpy, format_type, use_dither, width, height,
                   img, dtype, nearest, data, file, pc>>

DitherReturn ==
    /\ pc = "dither"
    /\ pos = width * height
    /\ pc' = "done"
    /\ UNCHANGED <<program, numpy, format_type, use_dither, width, height,
                   img, dtype, pixels, output, pos, nearest, data, file>>

SimpleQuantize ==
    /\ pc = "quantize"
    /\ output' = simple_quantize(img, width, height,
                                 SelectPalette(program, format_type),
                                 SelectIndices(program, format_type), numpy)
    /\ pos' = width * height
    /\ pc' = "done"
    /\ UNCHANGED <<program, numpy, format_type, use_dither, width, height,
                   img, dtype, pixels, nearest, data, file>>

NextQuantize == DitherIteration \/ DitherReturn \/ SimpleQuantize

SpecQuantize == InitQuantize /\ [][NextQuantize]_vars

---------------------------------------------------------------------------
(* Reference notions the properties are stated with *)

\* Squared Euclidean distance over the integers.
SquaredDistance(c1, c2) ==
    (c1[1] - c2[1]) * (c1[1] - c2[1]) + (c1[2] - c2[2]) * (c1[2] - c2[2])
    + (c1[3] - c2[3]) * (c1[3] - c2[3])

\* The first entry, in declaration order, at minimal distance of rgb.
FirstMinimal(rgb, palette) ==
    LET k == CHOOSE k \in 1..Len(palette) :
                 /\ \A j \in 1..Len(palette) :
                        SquaredDistance(rgb, palette[k].rgb)
                            <= SquaredDistance(rgb, palette[j].rgb)
                 /\ \A j \in 1..(k - 1) :
                        SquaredDistance(rgb, palette[k].rgb)
                            < SquaredDistance(rgb, palette[j].rgb)
    IN  palette[k].name

\* Truncation toward zero of the float32 m * 2^e.
TruncTowardZero(a) ==
    IF a[1] >= 0
    THEN (IF a[2] >= 0 THEN a[1] * Pow2(a[2]) ELSE a[1] \div Pow2(-a[2]))
    ELSE -(IF a[2] >= 0 THEN (-a[1]) * Pow2(a[2]) ELSE (-a[1]) \div Pow2(-a[2]))

IsFractional(a) == a[2] < 0

\* a < n, a > n for a float32 a and an integer n.
F32Less(a, n) == IF a[2] >= 0 THEN a[1] * Pow2(a[2]) < n
                 ELSE a[1] < n * Pow2(-a[2])

F32Greater(a, n) == IF a[2] >= 0 THEN a[1] * Pow2(a[2]) > n
                    ELSE a[1] > n * Pow2(-a[2])

OutOfRange(p) == \E c \in 1..3 : F32Less(p[c], 0) \/ F32Greater(p[c], 255)

\* Number of fraction bits needed to write the three channels of v.
FractionBits(v) ==
    LET Lowest(S) == CHOOSE e \in S : \A f \in S : e <= f
    IN  -Lowest({v[1][2], v[2][2], v[3][2], 0})

\* The sign of d(v, p) - d(v, q) for a float32 triple v, computed exactly.
\* d(v, p) - d(v, q) is the sum over the channels of
\* (q - p) * (2 v - p - q); the channels of p and q are 0 or 255, so
\* (q - p) is 255 times -1, 0 or 1, and the factor 255 is dropped.
DistanceDifferenceSign(v, p, q) ==
    LET E == FractionBits(v)
        term(c) == ((q[c] - p[c]) \div 255)
                   * (2 * v[c][1] * Pow2(v[c][2] + E) - (p[c] + q[c]) * Pow2(E))
    IN  Sgn(term(1) + term(2) + term(3))

\* The first entry at minimal distance of the exact float32 value v.
FirstMinimalExact(v, palette) ==
    LET k == CHOOSE k \in 1..Len(palette) :
                 /\ \A j \in 1..Len(palette) :
                        DistanceDifferenceSign(v, palette[k].rgb, palette[j].rgb) <= 0
                 /\ \A j \in 1..(k - 1) :
                        DistanceDifferenceSign(v, palette[k].rgb, palette[j].rgb) < 0
    IN  palette[k].name

ActivePalette == SelectPalette(program, format_type)

ActiveIndices == SelectIndices(program, format_type)

\* 4 entries for BWRY (and for the 4EI palette), 3 for BWR.
PaletteSize == IF program = "bmp" /\ format_type = "bwr" THEN 3 ELSE 4

Dithering == use_dither /\ pc \in {"dither", "done"}

---------------------------------------------------------------------------
(* C1 *)

\* C1: every cell of the Index Grid a quantizer has produced, or is
\* producing, holds a code below the size of the active palette (4 for
\* BWRY, 3 for BWR), also once diffusion has pushed values out of 0..255.
C1_CodesInPalette ==
    \A i \in 1..Len(output) : output[i] \in 0..(PaletteSize - 1)

\* A finished BWR dither run in which a processed pixel had left 0..255 and
\* the highest code of the palette was emitted.
C1_Witness ==
    /\ pc = "done" /\ use_dither
    /\ program = "bmp" /\ format_type = "bwr"
    /\ \E i \in 1..pos : OutOfRange(pixels[i])
    /\ \E i \in 1..pos : output[i] = 2

---------------------------------------------------------------------------
(* C6 *)

\* C6 as stated: the code recorded for every processed pixel is the palette
\* entry nearest to the pixel's exact accumulated value, which is neither
\* clamped nor rounded nor truncated before the comparison.
C6_NearestToExactValue ==
    Dithering =>
        \A i \in 1..pos :
            output[i] = ActiveIndices[FirstMinimalExact(pixels[i], ActivePalette)]

\* C6 amended: the value is not clamped, but each channel is truncated
\* toward zero to an integer (astype(int)) before the comparison; the code
\* recorded is the first palette entry nearest to the truncated value.
C6_NearestToTruncatedValue ==
    Dithering =>
        \A i \in 1..pos :
            output[i] = ActiveIndices[
                FirstMinimal(Triple(TruncTowardZero, pixels[i]), ActivePalette)]

\* A processed pixel whose accumulated value is fractional and outside
\* 0..255 in the same channel.
C6_Witness ==
    /\ Dithering
    /\ \E i \in 1..pos : \E c \in 1..3 :
           /\ IsFractional(pixels[i][c])
           /\ (F32Less(pixels[i][c], 0) \/ F32Greater(pixels[i][c], 255))

---------------------------------------------------------------------------
(* C7 *)

\* The weight (in sixteenths) with which pixel (x, y) diffuses its error to
\* pixel (nx, ny): 0 for every pixel that is not one of the four neighbours.
FloydSteinbergWeight(x, y, nx, ny) ==
    IF nx = x + 1 /\ ny = y THEN 7
    ELSE IF nx = x - 1 /\ ny = y + 1 THEN 3
    ELSE IF nx = x /\ ny = y + 1 THEN 5
    ELSE IF nx = x + 1 /\ ny = y + 1 THEN 1
    ELSE 0

\* The rgb value of the palette entry with the given index code.
RGBOfCode(code) ==
    LET k == CHOOSE k \in 1..Len(ActivePalette) :
                 ActiveIndices[ActivePalette[k].name] = code
    IN  ActivePalette[k].rgb

\* C7: processing pixel (x, y), with error e = value - chosen colour, adds
\* (in float32) e*7/16, e*3/16, e*5/16, e*1/16 to the in-grid pixels among
\* (x+1,y), (x-1,y+1), (x,y+1), (x+1,y+1) and changes no other pixel value
\* (no wraparound); and no step ever changes the value or the code of a
\* pixel at or before the scan position.
C7_DiffusionFrame ==
    [][ /\ (pc = "dither" /\ pos' = pos + 1) =>
              LET i == pos + 1
                  x == XOf(i, width)
                  y == YOf(i, width)
                  e == Triple2(F32Sub, pixels[i],
                               Triple(F32FromInt, RGBOfCode(output'[i])))
                  share(k) == LET f(c) == F32Div16(F32MulInt(c, k))
                              IN  Triple(f, e)
              IN  \A j \in 1..(width * height) :
                      LET k == FloydSteinbergWeight(x, y, XOf(j, width),
                                                    YOf(j, width))
                      IN  pixels'[j] = IF k = 0 THEN pixels[j]
                                       ELSE Triple2(F32Add, pixels[j], share(k))
        /\ Dithering =>
              /\ \A j \in 1..pos : output'[j] = output[j]
              /\ \A j \in 1..pos' : pixels'[j] = pixels[j]
      ]_vars

\* A finished dither of a 2 x 2 grid in which (1, 1) received error while
\* the pixels of the left column kept the errors of their row neighbours
\* out: (0, 0) was never changed and (0, 1) got none of (0, 0)'s 7/16.
C7_Witness ==
    /\ pc = "done" /\ use_dither
    /\ width = 2 /\ height = 2
    /\ pixels[1] = Triple(F32FromInt, img[1])
    /\ pixels[2] # Triple(F32FromInt, img[2])
    /\ pixels[3] # Triple(F32FromInt, img[3])
    /\ pixels[4] # Triple(F32FromInt, img[4])

---------------------------------------------------------------------------
(* C10 *)

IsPaletteColour(rgb) == \E k \in 1..Len(ActivePalette) : ActivePalette[k].rgb = rgb

IsExactPixel(p) ==
    \E k \in 1..Len(ActivePalette) :
        p = Triple(F32FromInt, ActivePalette[k].rgb)

AllExact == \A i \in 1..Len(img) : IsPaletteColour(img[i])

\* C10: a dither step on a pixel whose current value is an exact colour of
\* the active palette changes no pixel value; in a grid of exact palette
\* colours only, no pixel value is altered during the scan and the Index
\* Grid the dither returns is the one simple_quantize returns.
C10_ExactColoursUndithered ==
    [][ Dithering =>
          /\ (pos' = pos + 1 /\ IsExactPixel(pixels[pos + 1])) => pixels' = pixels
          /\ AllExact =>
                /\ pixels' = ToFloat32(img)
                /\ pc' = "done" =>
                      \A np \in NumpyRules :
                          output' = simple_quantize(img, width, height,
                                        ActivePalette, ActiveIndices, np)
      ]_vars

\* A finished dither of a four-cell grid of exact palette colours, at least
\* three of them different.
C10_Witness ==
    /\ pc = "done" /\ use_dither
    /\ AllExact
    /\ Len(img) = 4
    /\ Cardinality({img[i] : i \in 1..Len(img)}) >= 3

---------------------------------------------------------------------------
(* nearest_color on its own *)

\* Channel values: the corners, values around the black/white boundary,
\* multiples of 16 (whose squares are multiples of 256), and values outside
\* 0..255 as error diffusion produces them.
ChannelSamples == {-40, 0, 16, 127, 128, 240, 255, 300}

InitNearest ==
    /\ \E sel \in Selections : program = sel[1] /\ format_type = sel[2]
    /\ dtype \in {"int64", "uint8"}
    /\ numpy \in (IF dtype = "int64" THEN {"legacy"} ELSE NumpyRules)
    /\ use_dither = (dtype = "int64")
    /\ width = 1 /\ height = 1
    /\ \E r, g, b \in (IF dtype = "uint8" THEN ChannelSamples \cap (0..255)
                       ELSE ChannelSamples) : img = << <<r, g, b>> >>
    /\ pixels = << >>
    /\ output = << >>
    /\ pos = 0
    /\ nearest = ""
    /\ data = << >>
    /\ file = NoFile
    /\ pc = "call"

NearestColor ==
    /\ pc = "call"
    /\ nearest' = nearest_color(img[1], SelectPalette(program, format_type),
                                ScalarWraps(dtype, numpy))
    /\ pc' = "returned"
    /\ UNCHANGED <<program, numpy, format_type, use_dither, width, height,
                   img, dtype, pixels, output, pos, data, file>>

NextNearest == NearestColor

SpecNearest == InitNearest /\ [][NextNearest]_vars

---------------------------------------------------------------------------
(* C3 *)

\* C3: nearest_color returns a palette entry at minimal squared Euclidean
\* distance of the triple, the first declared one when several are
\* minimal; so an exact palette colour is classified as itself.
C3_FirstNearestEntry ==
    pc = "returned" => nearest = FirstMinimal(img[1], ActivePalette)

---------------------------------------------------------------------------
(* Bit packer *)

\* The loop `for bit in range(4)` of pack_pixels from the given bit on:
\* byte_val = (byte_val << 2) | (color_array[y, x] & 0x03).  The two low
\* bits of byte_val << 2 are clear, so the OR adds the masked code.
RECURSIVE pack_byte_lsb_first(_, _, _, _, _, _)
pack_byte_lsb_first(color_array, w, y, x_byte, bit, byte_val) ==
    IF bit = 4 THEN byte_val
    ELSE pack_byte_lsb_first(color_array, w, y, x_byte, bit + 1,
             byte_val + (color_array[Idx(x_byte * 4 + bit, y, w)] % 4) * Pow2(2 * bit))

RECURSIVE pack_byte(_, _, _, _, _, _)
pack_byte(color_array, w, y, x_byte, bit, byte_val) ==
    IF bit = 4 THEN byte_val
    ELSE pack_byte(color_array, w, y, x_byte, bit + 1,
             ((byte_val * 4) % 256) + (color_array[Idx(x_byte * 4 + bit, y, w)] % 4))

pack_pixels(color_array, w, h) ==
    LET bytes_per_row == w \div 4
    IN  [k \in 1..(h * bytes_per_row) |->
            pack_byte(color_array, w, (k - 1) \div bytes_per_row,
                      (k - 1) % bytes_per_row, 0, 0)]

PackShapes ==
    { s \in (1..MaxPackCells) \X (1..MaxPackCells) : s[1] * s[2] <= MaxPackCells }

InitPack ==
    /\ program = "4ei" /\ format_type = "bwry"
    /\ numpy = "legacy"
    /\ use_dither = FALSE
    /\ \E s \in PackShapes : width = s[1] /\ height = s[2]
    /\ img = << >>
    /\ dtype = "uint8"
    /\ pixels = << >>
    /\ output \in [1..(width * height) -> 0..3]
    /\ pos = 0
    /\ nearest = ""
    /\ data = << >>
    /\ file = NoFile
    /\ pc = "pack"

PackPixels ==
    /\ pc = "pack"
    /\ data' = pack_pixels(output, width, height)
    /\ pc' = "packed"
    /\ UNCHANGED <<program, numpy, format_type, use_dither, width, height,
                   img, dtype, pixels, output, pos, nearest, file>>

NextPack == PackPixels

SpecPack == InitPack /\ [][NextPack]_vars

---------------------------------------------------------------------------
(* C2 *)

\* Reading a packed buffer back 2 bits at a time, most significant pair
\* first, row-major: pixel x of a row is in bits 7-6, 5-4, 3-2, 1-0 of byte
\* x div 4 of the row, for x mod 4 = 0, 1, 2, 3.
Unpack(bytes, w, h) ==
    [i \in 1..(w * h) |->
        LET x == XOf(i, w)
            y == YOf(i, w)
            byte == bytes[y * (w \div 4) + (x \div 4) + 1]
        IN  (byte \div Pow2(6 - 2 * (x % 4))) % 4]

\* C2: for a grid whose width is a multiple of 4, unpacking the packed
\* buffer gives the grid back; the 4x1 grid [0,1,2,3] packs into byte 0x1B.
C2_PackUnpackRoundTrip ==
    (pc = "packed" /\ width % 4 = 0) =>
        /\ Len(data) = (width * height) \div 4
        /\ Unpack(data, width, height) = output
        /\ (width = 4 /\ height = 1 /\ output = <<0, 1, 2, 3>>) => data = <<27>>

\* A packed two-row grid using all four codes.
C2_Witness ==
    /\ pc = "packed"
    /\ width = 4 /\ height = 2
    /\ output = <<0, 1, 2, 3, 3, 2, 0, 1>>
    /\ data = <<27, 225>>

---------------------------------------------------------------------------
(* C4 *)

\* C4: pack_pixels never returns a buffer for a grid whose width is not
\* divisible by 4 (it ends in an error instead of dropping the trailing
\* width mod 4 pixels of each row).
C4_OddWidthRejected == ~(pc = "packed" /\ width % 4 # 0)

---------------------------------------------------------------------------
(* convert_to_4ei.py: the raw file *)

\* struct.pack('<H', n): two bytes, least significant first.
struct_pack_H_big_endian(n) == <<(n \div 256) % 256, n % 256>>

struct_pack_H(n) == <<n % 256, (n \div 256) % 256>>

\* b'4EI1'
MAGIC == <<52, 69, 73, 49>>

\* What the `with open(output_path, 'wb')` block writes; w and h are the
\* globals WIDTH and HEIGHT.
write_4ei(w, h, packed_data) ==
    [written |-> TRUE,
     bytes   |-> MAGIC \o struct_pack_H(w) \o struct_pack_H(h) \o packed_data,
     palette |-> << >>,
     pixels  |-> << >>]

\* convert_image of convert_to_4ei.py on an image already loaded, converted
\* to RGB and resized to w x h.
convert_image_4ei(im, w, h, dither, np) ==
    LET color_array == IF dither
                       THEN floyd_steinberg_dither(im, w, h, PALETTE, COLOR_CODES)
                       ELSE simple_quantize(im, w, h, PALETTE, COLOR_CODES, np)
        packed_data == pack_pixels(color_array, w, h)
    IN  [color_array |-> color_array, packed_data |-> packed_data,
         file |-> write_4ei(w, h, packed_data)]

\* color = y // 50
StripeRows == 50

create_test_pattern_4ei(w, h) ==
    LET color_array == [i \in 1..(w * h) |-> (YOf(i, w) \div StripeRows) % 4]
        packed_data == pack_pixels(color_array, w, h)
    IN  [color_array |-> color_array, packed_data |-> packed_data,
         file |-> write_4ei(w, h, packed_data)]

---------------------------------------------------------------------------
(* convert_to_bmp.py: the indexed bitmap *)

Flatten3(triples) ==
    [i \in 1..(3 * Len(triples)) |-> triples[((i - 1) \div 3) + 1][((i - 1) % 3) + 1]]

\* create_indexed_bmp: the palette handed to putpalette and the array
\* handed to Image.fromarray(mode='P'), one index per pixel.
create_indexed_bmp_unpadded(color_array, fmt) ==
    LET head == IF fmt = "bwry"
                THEN Flatten3(<< PaletteRGB(PALETTE_BWRY, "black"),
                                 PaletteRGB(PALETTE_BWRY, "white"),
                                 PaletteRGB(PALETTE_BWRY, "yellow"),
                                 PaletteRGB(PALETTE_BWRY, "red") >>)
                ELSE Flatten3(<< PaletteRGB(PALETTE_BWR, "black"),
                                 PaletteRGB(PALETTE_BWR, "white"),
                                 PaletteRGB(PALETTE_BWR, "red") >>)
    IN  [written |-> TRUE, bytes |-> << >>,
         palette |-> head \o Zeros((256 - 4) * 3),
         pixels  |-> color_array]

create_indexed_bmp(color_array, fmt) ==
    LET head == IF fmt = "bwry"
                THEN Flatten3(<< PaletteRGB(PALETTE_BWRY, "black"),
                                 PaletteRGB(PALETTE_BWRY, "white"),
                                 PaletteRGB(PALETTE_BWRY, "yellow"),
                                 PaletteRGB(PALETTE_BWRY, "red") >>)
                ELSE Flatten3(<< PaletteRGB(PALETTE_BWR, "black"),
                                 PaletteRGB(PALETTE_BWR, "white"),
                                 PaletteRGB(PALETTE_BWR, "red") >>)
                     \o <<0, 0, 0>>
    IN  [written |-> TRUE, bytes |-> << >>,
         palette |-> head \o Zeros((256 - 4) * 3),
         pixels  |-> color_array]

\* convert_image of convert_to_bmp.py on an image already loaded, converted
\* to RGB and resized to w x h: 'bwry' selects BWRY, anything else BWR.
convert_image_bmp(im, w, h, dither, fmt, np) ==
    LET palette         == IF fmt = "bwry" THEN PALETTE_BWRY ELSE PALETTE_BWR
        palette_indices == IF fmt = "bwry" THEN PALETTE_INDICES_BWRY
                           ELSE PALETTE_INDICES_BWR
        color_array == IF dither
                       THEN floyd_steinberg_dither(im, w, h, palette, palette_indices)
                       ELSE simple_quantize(im, w, h, palette, palette_indices, np)
    IN  [color_array |-> color_array,
         file |-> create_indexed_bmp(color_array, fmt)]

create_test_pattern_bmp(w, h, fmt) ==
    LET num_colors    == IF fmt = "bwry" THEN 4 ELSE 3
        stripe_height == h \div num_colors
        color(y)      == LET c == y \div stripe_height
                         IN  IF c < num_colors - 1 THEN c ELSE num_colors - 1
        color_array   == [i \in 1..(w * h) |-> color(YOf(i, w))]
    IN  [color_array |-> color_array,
         file |-> create_indexed_bmp(color_array, fmt)]

\* str.lower() on the selectors of the model.
Lower(s) ==
    CASE s = "BWR"  -> "bwr"
      [] s = "BWRY" -> "bwry"
      [] s = "RGB"  -> "rgb"
      [] OTHER      -> s

\* parse_args on sys.argv (argv[1] is the script name).
parse_args(argv) ==
    IF Len(argv) < 3
    THEN [exit |-> TRUE, input_arg |-> "", use_dither |-> FALSE,
          format_type |-> "bwry"]
    ELSE LET hits == { i \in 1..Len(argv) : argv[i] = "--format" /\ i + 1 <= Len(argv) }
             first == CHOOSE i \in hits : \A j \in hits : i <= j
             fmt == IF hits = {} THEN "bwry" ELSE Lower(argv[first + 1])
         IN  [exit        |-> fmt \notin {"bwr", "bwry"},
              input_arg   |-> argv[2],
              use_dither  |-> \E i \in 1..Len(argv) : argv[i] = "--dither",
              format_type |-> fmt]

---------------------------------------------------------------------------
(* Whole conversions *)

Kinds == {"solid", "columns", "checker"}

\* A w x h image of the colours a and b.
PatternImage(kind, a, b, w, h) ==
    [i \in 1..(w * h) |->
        LET first == CASE kind = "solid"   -> TRUE
                       [] kind = "columns" -> XOf(i, w) % 2 = 0
                       [] OTHER            -> (XOf(i, w) + YOf(i, w)) % 2 = 0
        IN  IF first THEN a ELSE b]

Images == { PatternImage(k, a, b, WIDTH, HEIGHT) :
                k \in Kinds, a \in Colours, b \in Colours }

FormatSelectors == {"bwry", "bwr", "rgb"}

CommandLines ==
    { <<"convert_to_bmp.py">>,
      <<"convert_to_bmp.py", "photo.png", "out.bmp">>,
      <<"convert_to_bmp.py", "photo.png", "out.bmp", "--dither">>,
      <<"convert_to_bmp.py", "photo.png", "out.bmp", "--format", "bwr">>,
      <<"convert_to_bmp.py", "photo.png", "out.bmp", "--dither", "--format", "BWR">>,
      <<"convert_to_bmp.py", "photo.png", "out.bmp", "--format", "rgb">>,
      <<"convert_to_bmp.py", "photo.png", "out.bmp", "--format">>,
      <<"convert_to_bmp.py", "test", "out.bmp">>,
      <<"convert_to_bmp.py", "test", "out.bmp", "--format", "bwr">>,
      <<"convert_to_bmp.py", "test", "out.bmp", "--format", "RGB">> }

InitConvert ==
    /\ program = ""
    /\ numpy \in NumpyRules
    /\ format_type = ""
    /\ use_dither = FALSE
    /\ width = WIDTH /\ height = HEIGHT
    /\ img \in Images
    /\ dtype = "uint8"
    /\ pixels = << >>
    /\ output = << >>
    /\ pos = 0
    /\ nearest = ""
    /\ data = << >>
    /\ file = NoFile
    /\ pc = "start"

ConvertImage4ei ==
    /\ pc = "start"
    /\ \E dither \in BOOLEAN :
           LET r == convert_image_4ei(img, WIDTH, HEIGHT, dither, numpy)
           IN  /\ use_dither' = dither
               /\ output' = r.color_array
               /\ data' = r.packed_data
               /\ file' = r.file
    /\ program' = "4ei"
    /\ format_type' = "bwry"
    /\ pc' = "converted"
    /\ UNCHANGED <<numpy, width, height, img, dtype, pixels, pos, nearest>>

CreateTestPattern4ei ==
    /\ pc = "start"
    /\ LET r == create_test_pattern_4ei(WIDTH, HEIGHT)
       IN  /\ output' = r.color_array
           /\ data' = r.packed_data
           /\ file' = r.file
    /\ program' = "4ei"
    /\ format_type' = "bwry"
    /\ pc' = "pattern"
    /\ UNCHANGED <<numpy, use_dither, width, height, img, dtype, pixels, pos,
                   nearest>>

ConvertImageBmp ==
    /\ pc = "start"
    /\ \E dither \in BOOLEAN, fmt \in FormatSelectors :
           LET r == convert_image_bmp(img, WIDTH, HEIGHT, dither, fmt, numpy)
           IN  /\ use_dither' = dither
               /\ format_type' = fmt
               /\ output' = r.color_array
               /\ file' = r.file
    /\ program' = "bmp"
    /\ pc' = "converted"
    /\ UNCHANGED <<numpy, width, height, img, dtype, pixels, pos, nearest, data>>

CreateTestPatternBmp ==
    /\ pc = "start"
    /\ \E fmt \in FormatSelectors :
           LET r == create_test_pattern_bmp(WIDTH, HEIGHT, fmt)
           IN  /\ format_type' = fmt
               /\ output' = r.color_array
               /\ file' = r.file
    /\ program' = "bmp"
    /\ pc' = "pattern"
    /\ UNCHANGED <<numpy, use_dither, width, height, img, dtype, pixels, pos,
                   nearest, data>>

\* main of convert_to_bmp.py: parse_args, then the conversion it selects.
MainBmp ==
    /\ pc = "start"
    /\ program' = "bmp"
    /\ \E argv \in CommandLines :
           LET a == parse_args(argv)
               r == IF a.input_arg = "test"
                    THEN create_test_pattern_bmp(WIDTH, HEIGHT, a.format_type)
                    ELSE convert_image_bmp(img, WIDTH, HEIGHT, a.use_dither,
                                           a.format_type, numpy)
           IN  /\ format_type' = a.format_type
               /\ use_dither' = a.use_dither
               /\ IF a.exit
                  THEN /\ pc' = "exit1"
                       /\ UNCHANGED <<output, file>>
                  ELSE /\ pc' = IF a.input_arg = "test" THEN "pattern" ELSE "converted"
                       /\ output' = r.color_array
                       /\ file' = r.file
    /\ UNCHANGED <<numpy, width, height, img, dtype, pixels, pos, nearest, data>>

NextConvert ==
    \/ ConvertImage4ei
    \/ CreateTestPattern4ei
    \/ ConvertImageBmp
    \/ CreateTestPatternBmp
    \/ MainBmp

SpecConvert == InitConvert /\ [][NextConvert]_vars

---------------------------------------------------------------------------
(* C5 *)

\* C5: a conversion of the bitmap converter given a format selector that
\* is neither 'bwry' nor 'bwr' ends in an error before any quantization
\* and writes nothing; it never goes on with a palette.
C5_InvalidFormatRejected ==
    (program = "bmp" /\ pc # "start" /\ format_type \notin {"bwry", "bwr"}) =>
        /\ pc = "exit1"
        /\ ~file.written
        /\ output = << >>

---------------------------------------------------------------------------
(* C8 *)

\* The raw files convert_image writes for a solid black panel-sized
\* (200 x 200) image without dithering, one per numpy promotion rule.
PanelBlackFiles ==
    { write_4ei(PanelWidth, PanelHeight,
                pack_pixels(simple_quantize(
                                [i \in 1..(PanelWidth * PanelHeight) |-> <<0, 0, 0>>],
                                PanelWidth, PanelHeight, PALETTE, COLOR_CODES, np),
                            PanelWidth, PanelHeight)).bytes :
          np \in NumpyRules }

PanelBlackScenario ==
    \A f \in PanelBlackFiles :
        /\ Len(f) = 10008
        /\ SubSeq(f, 1, 8) = <<52, 69, 73, 49, 200, 0, 200, 0>>
        /\ \A i \in 9..10008 : f[i] = 0

IsSolidBlack(im) == \A i \in 1..Len(im) : im[i] = <<0, 0, 0>>

\* C8: every raw file written is '4EI1', the width and the height of the
\* packed grid as little-endian uint16, then width*height/4 packed bytes,
\* 8 + width*height/4 bytes in all (10008 for 200 x 200); for a solid black
\* input without dithering every data byte is 0.
C8_RawFileLayout ==
    (program = "4ei" /\ file.written) =>
        /\ Len(output) = width * height
        /\ (width * height) % 4 = 0
        /\ Len(file.bytes) = 8 + (width * height) \div 4
        /\ SubSeq(file.bytes, 1, 4) = <<52, 69, 73, 49>>
        /\ \A i \in 5..8 : file.bytes[i] \in 0..255
        /\ file.bytes[5] + 256 * file.bytes[6] = width
        /\ file.bytes[7] + 256 * file.bytes[8] = height
        /\ SubSeq(file.bytes, 9, Len(file.bytes)) = pack_pixels(output, width, height)
        /\ (pc = "converted" /\ ~use_dither /\ IsSolidBlack(img)) =>
               \A i \in 9..Len(file.bytes) : file.bytes[i] = 0
        /\ PanelBlackScenario

\* The raw file of a solid black image converted without dithering.
C8_Witness ==
    /\ program = "4ei" /\ pc = "converted" /\ file.written
    /\ ~use_dither /\ IsSolidBlack(img)
    /\ Len(file.bytes) > 8

---------------------------------------------------------------------------
(* C9 *)

\* Entry k (0-based) of a flat colour table.
TableEntry(table, k) == <<table[3 * k + 1], table[3 * k + 2], table[3 * k + 3]>>

\* C9: the colour table of every bitmap written has exactly 256 entries;
\* entries 0..3 are black, white, yellow, red for BWRY and black, white,
\* red, black for BWR; entries 4..255 are (0,0,0); the pixel data is the
\* Index Grid, one code per pixel.
C9_ColourTable ==
    (program = "bmp" /\ file.written) =>
        /\ Len(file.palette) = 256 * 3
        /\ format_type = "bwry" =>
               /\ TableEntry(file.palette, 0) = <<0, 0, 0>>
               /\ TableEntry(file.palette, 1) = <<255, 255, 255>>
               /\ TableEntry(file.palette, 2) = <<255, 255, 0>>
               /\ TableEntry(file.palette, 3) = <<255, 0, 0>>
        /\ format_type = "bwr" =>
               /\ TableEntry(file.palette, 0) = <<0, 0, 0>>
               /\ TableEntry(file.palette, 1) = <<255, 255, 255>>
               /\ TableEntry(file.palette, 2) = <<255, 0, 0>>
               /\ TableEntry(file.palette, 3) = <<0, 0, 0>>
        /\ \A k \in 4..255 : TableEntry(file.palette, k) = <<0, 0, 0>>
        /\ file.pixels = output
        /\ Len(file.pixels) = width * height

\* The bitmap of a solid black image converted for BWR: all pixels 0.
C9_Witness ==
    /\ program = "bmp" /\ pc = "converted" /\ file.written
    /\ format_type = "bwr"
    /\ IsSolidBlack(img)
    /\ \A i \in 1..Len(file.pixels) : file.pixels[i] = 0
    /\ Len(file.pixels) > 0

=============================================================================
